---- MODULE Spec2Model ----
(***************************************************************************)
(* Model of streamlit_app.py: the "Run Backtest" handler of main(), the    *)
(* ticker parser process_ticker_input() and the per-ticker metrics         *)
(* pipeline (returns, CAGR, volatility, drawdown, recovery, resampling).   *)
(*                                                                         *)
(* Representation.                                                         *)
(*  - A date is a day number, day 0 being 2023-11-01; DateOf gives its     *)
(*    civil year/month/day with the Gregorian month lengths.               *)
(*  - A pandas Series is a sequence of records [date, value], dates        *)
(*    strictly increasing.                                                 *)
(*  - Prices are positive integers.  Ratios of prices are exact rationals  *)
(*    [num, den] in lowest terms with den > 0.  For the integer prices     *)
(*    used here two different ratios differ by far more than a double's    *)
(*    rounding error, so comparisons of the rationals agree with the       *)
(*    comparisons the floating-point code makes.                           *)
(*  - NaN is the value NaN below; None is the empty tuple <<>> and a       *)
(*    present optional value x is <<x>>.                                   *)
(*  - CAGR is kept as its three inputs (end price, start price, elapsed    *)
(*    days) and the volatility as NaN or the number of returns it was      *)
(*    computed from: the power and the square root are not evaluated.      *)
(***************************************************************************)
EXTENDS Integers, Sequences, FiniteSets, TLC

VARIABLES input_text, start_date, end_date, pc, tickers, i, fetched, out,
          stock_prices, stock_returns, cagr, annual_volatility, rolling_max,
          drawdown, max_drawdown, max_drawdown_start, recovery_date,
          recovery_period, underwater_y, annual_returns, monthly_returns,
          results

vars == <<input_text, start_date, end_date, pc, tickers, i, fetched, out,
          stock_prices, stock_returns, cagr, annual_volatility, rolling_max,
          drawdown, max_drawdown, max_drawdown_start, recovery_date,
          recovery_period, underwater_y, annual_returns, monthly_returns,
          results>>

request == <<input_text, start_date, end_date, tickers, i, fetched, out>>

locals == <<stock_returns, cagr, annual_volatility, rolling_max, drawdown,
            max_drawdown, max_drawdown_start, recovery_date, recovery_period,
            underwater_y, annual_returns, monthly_returns, results>>

(* ------------------------------ bounds --------------------------------- *)

\* longest price series of the metrics specification
MaxLen == 4
\* prices of the metrics specification are 1..MaxPrice
MaxPrice == 3
\* the data provider has NumDays candidate trading days, DayStride apart
NumDays == 5
DayStride == 20
\* longest text typed into the ticker box
MaxTextLen == 3
\* the start and end month are chosen among the first NumMonths months
NumMonths == 2
\* longest series and largest price the provider returns in a batch run
FetchMaxLen == 2
FetchMaxPrice == 2

(* ----------------------------- rationals ------------------------------- *)

Abs(n) == IF n < 0 THEN -n ELSE n

RECURSIVE Gcd(_, _)
Gcd(a, b) == IF b = 0 THEN a ELSE Gcd(b, a % b)

Rat(n, d) ==
  LET g == Gcd(Abs(n), Abs(d))
      s == IF d < 0 THEN -1 ELSE 1
  IN  [nan |-> FALSE, num |-> s * (n \div g), den |-> s * (d \div g)]

NaN == [nan |-> TRUE, num |-> 0, den |-> 1]

Zero == Rat(0, 1)

RatAdd(a, b) ==
  LET g == Gcd(a.den, b.den)
  IN  Rat(a.num * (b.den \div g) + b.num * (a.den \div g),
          (a.den \div g) * b.den)

RatLess(a, b) == a.num * b.den < b.num * a.den

RatLeq(a, b) == a.num * b.den <= b.num * a.den

(* ------------------------------ calendar ------------------------------- *)

IsLeap(y) == (y % 4 = 0 /\ y % 100 # 0) \/ y % 400 = 0

DaysInMonth(y, m) ==
  IF m = 2 THEN (IF IsLeap(y) THEN 29 ELSE 28)
  ELSE IF m \in {4, 6, 9, 11} THEN 30 ELSE 31

RECURSIVE Civil(_, _, _)
Civil(d, y, m) ==
  IF d < DaysInMonth(y, m)
  THEN [year |-> y, month |-> m, day |-> d + 1]
  ELSE Civil(d - DaysInMonth(y, m),
             IF m = 12 THEN y + 1 ELSE y,
             IF m = 12 THEN 1 ELSE m + 1)

\* civil date of day number d (day 0 is 2023-11-01)
DateOf(d) == Civil(d, 2023, 11)

\* day number of the last day of d's month
MonthEnd(d) ==
  LET c == DateOf(d) IN d - c.day + DaysInMonth(c.year, c.month)

\* day number of 31 December of d's year
RECURSIVE YearEnd(_)
YearEnd(d) ==
  LET e == MonthEnd(d)
  IN  IF DateOf(d).month = 12 THEN e ELSE YearEnd(e + 1)

\* the bin label pandas gives to date d under rule 'ME' or 'YE'
PeriodEnd(freq, d) == IF freq = "ME" THEN MonthEnd(d) ELSE YearEnd(d)

\* first day of the k-th month counted from day 0 (k = 0 is November 2023)
RECURSIVE FirstDayOfMonth(_)
FirstDayOfMonth(k) ==
  IF k = 0 THEN 0 ELSE MonthEnd(FirstDayOfMonth(k - 1)) + 1

\* dt.date(year, month, calendar.monthrange(year, month)[1])
LastDayOfMonth(k) == MonthEnd(FirstDayOfMonth(k))

(* ------------------------------- series -------------------------------- *)

Dates(s) == {s[k].date : k \in 1..Len(s)}

\* s[d]: the value at label d
ValueAt(s, d) == s[CHOOSE k \in 1..Len(s) : s[k].date = d].value

SetMin(S) == CHOOSE x \in S : \A y \in S : x <= y

RECURSIVE Ascending(_)
Ascending(S) ==
  IF S = {} THEN <<>> ELSE <<SetMin(S)>> \o Ascending(S \ {SetMin(S)})

\* every price series on at most maxLen of the days, prices in 1..maxPrice
SeriesSet(days, maxLen, maxPrice) ==
  UNION { { [k \in 1..Cardinality(D) |->
               [date |-> Ascending(D)[k], value |-> f[Ascending(D)[k]]]]
            : f \in [D -> 1..maxPrice] }
          : D \in {T \in SUBSET days : Cardinality(T) <= maxLen} }

TradingDays == {k * DayStride : k \in 0..(NumDays - 1)}

\* the worked example: 100, 120, 90, 80, 130 on consecutive days
ExampleSeries ==
  [k \in 1..5 |-> [date |-> k - 1, value |-> <<100, 120, 90, 80, 130>>[k]]]

(* ------------------------- the metrics pipeline ------------------------ *)

\* Series.pct_change(): NaN at the first date, then p[k]/p[k-1] - 1
pct_change(prices) ==
  [k \in 1..Len(prices) |->
     [date  |-> prices[k].date,
      value |-> IF k = 1 THEN NaN
                ELSE Rat(prices[k].value - prices[k-1].value,
                         prices[k-1].value)]]

\* number of returns that are not NaN
RECURSIVE CountDefined(_)
CountDefined(s) ==
  IF s = <<>> THEN 0
  ELSE (IF s[1].value.nan THEN 0 ELSE 1) + CountDefined(Tail(s))

\* np.std(stock_returns) * np.sqrt(252): pandas skips NaN, and the standard
\* deviation of no value at all is NaN
Volatility(returns) ==
  [nan |-> CountDefined(returns) = 0, n |-> CountDefined(returns)]

\* ((end_price / start_price) ** (1 / years)) - 1, years = days / 365.25;
\* 1 / years raises ZeroDivisionError when the range is empty
Cagr(prices, start, end) ==
  [raises      |-> end - start = 0,
   end_price   |-> prices[Len(prices)].value,
   start_price |-> prices[1].value,
   days        |-> end - start]

RECURSIVE RunningMax(_, _)
RunningMax(prices, k) ==
  IF k = 1 THEN prices[1].value
  ELSE LET m == RunningMax(prices, k - 1)
       IN  IF prices[k].value > m THEN prices[k].value ELSE m

\* cummax taken over the dates before the current one only
cummax_lagging(prices) ==
  [k \in 1..Len(prices) |->
     [date |-> prices[k].date,
      value |-> RunningMax(prices, IF k = 1 THEN 1 ELSE k - 1)]]

\* Series.cummax()
cummax(prices) ==
  [k \in 1..Len(prices) |->
     [date |-> prices[k].date, value |-> RunningMax(prices, k)]]

\* (stock_prices / rolling_max) - 1
Drawdown(prices, rmax) ==
  [k \in 1..Len(prices) |->
     [date  |-> prices[k].date,
      value |-> Rat(prices[k].value - rmax[k].value, rmax[k].value)]]

\* the scan that keeps the last of several equal minima
RECURSIVE ArgMinLast(_, _, _)
ArgMinLast(s, k, best) ==
  IF k > Len(s) THEN best
  ELSE ArgMinLast(s, k + 1,
                  IF RatLeq(s[k].value, s[best].value) THEN k ELSE best)

\* position of the minimum, scanning left to right and keeping the first
RECURSIVE ArgMin(_, _, _)
ArgMin(s, k, best) ==
  IF k > Len(s) THEN best
  ELSE ArgMin(s, k + 1,
              IF RatLess(s[k].value, s[best].value) THEN k ELSE best)

\* Series.min()
SeriesMin(s) == s[ArgMin(s, 2, 1)].value

\* Series.idxmin()
idxmin(s) == s[ArgMin(s, 2, 1)].date

\* the scan that asks for a price above the peak, not at or above it
RECURSIVE RecoveryScanStrict(_, _, _, _)
RecoveryScanStrict(prices, k, from, peak) ==
  IF k > Len(prices) THEN <<>>
  ELSE IF prices[k].date >= from /\ prices[k].value > peak
       THEN <<prices[k].date>>
       ELSE RecoveryScanStrict(prices, k + 1, from, peak)

\* for date, price in stock_prices[max_drawdown_start:].items():
\*     if price >= rolling_max[max_drawdown_start]: recovery_date = date; break
RECURSIVE RecoveryScan(_, _, _, _)
RecoveryScan(prices, k, from, peak) ==
  IF k > Len(prices) THEN <<>>
  ELSE IF prices[k].date >= from /\ prices[k].value >= peak
       THEN <<prices[k].date>>
       ELSE RecoveryScan(prices, k + 1, from, peak)

RecoveryDate(prices, rmax, mddStart) ==
  RecoveryScan(prices, 1, mddStart, ValueAt(rmax, mddStart))

\* if recovery_date: recovery_period = (recovery_date - max_drawdown_start).days
RecoveryPeriod(rdate, mddStart) ==
  IF rdate # <<>> THEN <<rdate[1] - mddStart>> ELSE <<>>

\* underwater_y: consecutive observations below the peak, each worth 1/30
RECURSIVE UnderwaterCount(_, _)
UnderwaterCount(dd, k) ==
  IF k = 0 THEN 0
  ELSE IF RatLess(dd[k].value, Zero) THEN UnderwaterCount(dd, k - 1) + 1
       ELSE 0

Underwater(dd) ==
  [k \in 1..Len(dd) |->
     [date |-> dd[k].date, value |-> Rat(UnderwaterCount(dd, k), 30)]]

\* the bin labels from the bin of the first date to the bin of the last one
RECURSIVE BinEnds(_, _, _)
BinEnds(freq, e, lastEnd) ==
  IF e >= lastEnd THEN <<e>>
  ELSE <<e>> \o BinEnds(freq, PeriodEnd(freq, e + 1), lastEnd)

\* sum of the returns of bin e, NaN skipped, 0 for a bin without any
RECURSIVE SumIn(_, _, _)
SumIn(s, freq, e) ==
  IF s = <<>> THEN Zero
  ELSE IF PeriodEnd(freq, s[1].date) = e /\ ~s[1].value.nan
       THEN RatAdd(s[1].value, SumIn(Tail(s), freq, e))
       ELSE SumIn(Tail(s), freq, e)

\* Series.resample(freq).sum()
resample_sum(s, freq) ==
  IF s = <<>> THEN <<>>
  ELSE LET ends == BinEnds(freq, PeriodEnd(freq, s[1].date),
                           PeriodEnd(freq, s[Len(s)].date))
       IN  [k \in 1..Len(ends) |->
              [date |-> ends[k], value |-> SumIn(s, freq, ends[k])]]

\* the metrics dictionary of one ticker; None / 30.22 raises TypeError
Metrics(cg, vol, mdd, rperiod) ==
  [raises   |-> rperiod = <<>>,
   cagr     |-> cg,
   vol      |-> vol,
   max_drawdown |-> mdd,
   recovery_months |-> IF rperiod = <<>> THEN Zero
                       ELSE Rat(rperiod[1] * 100, 3022)]

(* ---------------------- metrics specification -------------------------- *)

NoCagr == [raises |-> FALSE, end_price |-> 0, start_price |-> 0, days |-> 0]

LocalsInit ==
  /\ stock_returns = <<>>
  /\ cagr = NoCagr
  /\ annual_volatility = [nan |-> FALSE, n |-> 0]
  /\ rolling_max = <<>>
  /\ drawdown = <<>>
  /\ max_drawdown = Zero
  /\ max_drawdown_start = 0
  /\ recovery_date = <<>>
  /\ recovery_period = <<>>
  /\ underwater_y = <<>>
  /\ annual_returns = <<>>
  /\ monthly_returns = <<>>
  /\ results = <<>>

\* lines 237-288 applied to prices: the assignments up to the resampling
Compute(prices) ==
  /\ stock_returns' = pct_change(prices)
  /\ cagr' = Cagr(prices, start_date, end_date)
  /\ annual_volatility' = Volatility(pct_change(prices))
  /\ rolling_max' = cummax(prices)
  /\ drawdown' = Drawdown(prices, cummax(prices))
  /\ max_drawdown' = SeriesMin(drawdown')
  /\ max_drawdown_start' = idxmin(drawdown')
  /\ recovery_date' = RecoveryDate(prices, rolling_max', max_drawdown_start')
  /\ recovery_period' = RecoveryPeriod(recovery_date', max_drawdown_start')
  /\ underwater_y' = Underwater(drawdown')
  /\ annual_returns' = resample_sum(stock_returns', "YE")
  /\ monthly_returns' = resample_sum(stock_returns', "ME")

MetricsInit ==
  /\ input_text = <<>>
  /\ start_date = FirstDayOfMonth(0)
  /\ end_date = LastDayOfMonth(NumMonths - 1)
  /\ pc = "prices"
  /\ tickers = <<>>
  /\ i = 0
  /\ fetched = <<>>
  /\ out = <<>>
  /\ stock_prices \in
       (SeriesSet(TradingDays, MaxLen, MaxPrice) \ {<<>>}) \cup {ExampleSeries}
  /\ LocalsInit

ComputeMetrics ==
  /\ pc = "prices"
  /\ pc' = "computed"
  /\ Compute(stock_prices)
  /\ UNCHANGED <<request, stock_prices, results>>

MetricsNext == ComputeMetrics

SpecMetrics == MetricsInit /\ [][MetricsNext]_vars

(* --------------------------- ticker parsing ---------------------------- *)

\* the characters a user types: a letter, a digit, an allowed symbol, a
\* symbol that is not allowed, the separator and a blank
Chars == {"a", "7", "^", "!", ",", " "}

Whitespace == {" "}

\* str.isalnum() of one character
isalnum(c) == c \in {"a", "A", "7"}

AllowedSymbols == {"^", "=", ".", "-"}

\* str.upper() of one character
UpperChar(c) == IF c = "a" THEN "A" ELSE c

upper(s) == [k \in 1..Len(s) |-> UpperChar(s[k])]

RECURSIVE LStrip(_)
LStrip(s) == IF s # <<>> /\ s[1] \in Whitespace THEN LStrip(Tail(s)) ELSE s

RECURSIVE RStrip(_)
RStrip(s) ==
  IF s # <<>> /\ s[Len(s)] \in Whitespace
  THEN RStrip(SubSeq(s, 1, Len(s) - 1)) ELSE s

\* str.strip()
strip(s) == RStrip(LStrip(s))

\* str.split(","): the pieces between the commas, empty pieces included
RECURSIVE SplitFrom(_, _)
SplitFrom(s, cur) ==
  IF s = <<>> THEN <<cur>>
  ELSE IF s[1] = "," THEN <<cur>> \o SplitFrom(Tail(s), <<>>)
       ELSE SplitFrom(Tail(s), Append(cur, s[1]))

split(s) == SplitFrom(s, <<>>)

\* lines 17-22: the candidate tickers of a text
Candidates(text) ==
  LET t == strip(text)
  IN  IF \E k \in 1..Len(t) : t[k] = ","
      THEN [k \in 1..Len(split(t)) |-> upper(strip(split(t)[k]))]
      ELSE <<upper(t)>>

\* all(char.isalnum() or char in {"^", "=", ".", "-"} for char in ticker)
ValidFormat(ticker) ==
  \A k \in 1..Len(ticker) : isalnum(ticker[k]) \/ ticker[k] \in AllowedSymbols

NoMetrics == Metrics(NoCagr, [nan |-> FALSE, n |-> 0], Zero, <<0>>)

Event(kind, msg, ticker, body) ==
  [kind |-> kind, msg |-> msg, ticker |-> ticker, body |-> body]

RECURSIVE Validate(_)
Validate(cands) ==
  IF cands = <<>> THEN [valid |-> <<>>, warnings |-> <<>>]
  ELSE LET rest == Validate(Tail(cands))
       IN  IF ValidFormat(cands[1])
           THEN [valid |-> <<cands[1]>> \o rest.valid,
                 warnings |-> rest.warnings]
           ELSE [valid |-> rest.valid,
                 warnings |->
                   <<Event("warning", "invalid_format", cands[1], NoMetrics)>>
                   \o rest.warnings]

\* the valid tickers returned and the warnings shown
process_ticker_input(text) == Validate(Candidates(text))

(* --------------------------- the batch run ----------------------------- *)

RECURSIVE TextsOfLen(_)
TextsOfLen(n) ==
  IF n = 0 THEN {<<>>}
  ELSE {Append(t, c) : t \in TextsOfLen(n - 1), c \in Chars}

Texts == UNION {TextsOfLen(n) : n \in 0..MaxTextLen}

\* yf.Ticker(ticker).history(start, end)['Close']: a possibly empty series
\* of closes on trading days of [start, end); no instrument has the empty
\* symbol, so the provider has no data for it
History(ticker, start, end) ==
  IF ticker = <<>> THEN {<<>>}
  ELSE SeriesSet({d \in TradingDays : start <= d /\ d < end},
                 FetchMaxLen, FetchMaxPrice)

Init ==
  /\ input_text \in Texts
  /\ \E ms \in 0..(NumMonths - 1), me \in 0..(NumMonths - 1) :
       /\ start_date = FirstDayOfMonth(ms)
       /\ end_date = LastDayOfMonth(me)
  /\ pc = "idle"
  /\ tickers = <<>>
  /\ i = 0
  /\ fetched = <<>>
  /\ out = <<>>
  /\ stock_prices = <<>>
  /\ LocalsInit

\* lines 221-228: the button is pressed
RunBacktest ==
  /\ pc = "idle"
  /\ LET r == process_ticker_input(input_text)
     IN  /\ tickers' = r.valid
         /\ IF r.valid = <<>>
            THEN /\ out' = Append(r.warnings,
                                  Event("error", "no_valid_tickers", <<>>,
                                        NoMetrics))
                 /\ pc' = "done"
                 /\ i' = 0
            ELSE /\ out' = r.warnings
                 /\ pc' = "loop"
                 /\ i' = 1
  /\ UNCHANGED <<input_text, start_date, end_date, fetched, stock_prices,
                 locals>>

Advance ==
  /\ i' = i + 1
  /\ pc' = IF i + 1 > Len(tickers) THEN "done" ELSE "loop"

\* except Exception as e: st.error(...), which ends the loop
Abort ==
  /\ out' = Append(out, Event("error", "exception", <<>>, NoMetrics))
  /\ pc' = "done"
  /\ i' = i

\* lines 297-311: the metrics of the ticker and its four charts
Render(ticker, m) ==
  <<Event("report", "metrics", ticker, m),
    Event("chart", "price", ticker, NoMetrics),
    Event("chart", "annual_returns", ticker, NoMetrics),
    Event("chart", "drawdown_and_underwater", ticker, NoMetrics),
    Event("chart", "seasonality", ticker, NoMetrics)>>

\* lines 230-311: one iteration of the loop over the tickers
LoopBody ==
  /\ pc = "loop"
  /\ \E prices \in History(tickers[i], start_date, end_date) :
       /\ fetched' = Append(fetched, tickers[i])
       /\ stock_prices' = prices
       /\ IF prices = <<>>
          THEN /\ out' = Append(out, Event("warning", "no_data", tickers[i],
                                           NoMetrics))
               /\ Advance
               /\ UNCHANGED locals
          ELSE IF Cagr(prices, start_date, end_date).raises
          THEN /\ stock_returns' = pct_change(prices)
               /\ results' = <<>>
               /\ Abort
               /\ UNCHANGED <<cagr, annual_volatility, rolling_max, drawdown,
                              max_drawdown, max_drawdown_start, recovery_date,
                              recovery_period, underwater_y, annual_returns,
                              monthly_returns>>
          ELSE /\ Compute(prices)
               /\ LET m == Metrics(cagr', annual_volatility', max_drawdown',
                                   recovery_period')
                  IN  IF m.raises
                      THEN /\ results' = <<>>
                           /\ Abort
                      ELSE /\ results' = <<[ticker |-> tickers[i],
                                            metrics |-> m]>>
                           /\ out' = out \o Render(tickers[i], m)
                           /\ Advance
  /\ UNCHANGED <<input_text, start_date, end_date, tickers>>

Next == RunBacktest \/ LoopBody

Spec == Init /\ [][Next]_vars

(* ------------------------------ properties ----------------------------- *)

Count(kind, msg) ==
  Cardinality({k \in 1..Len(out) : out[k].kind = kind /\ out[k].msg = msg})

Warnings(msg) ==
  LET IsIt(e) == e.kind = "warning" /\ e.msg = msg
      w == SelectSeq(out, IsIt)
  IN  [k \in 1..Len(w) |-> w[k].ticker]

TopLevelError == Count("error", "exception") > 0

PerTickerOutput == \E k \in 1..Len(out) : out[k].kind \in {"report", "chart"}

\* the largest of the first k prices
PrefixMax(prices, k) ==
  CHOOSE m \in {prices[j].value : j \in 1..k} :
    \A j \in 1..k : prices[j].value <= m

NonDecreasing(prices) ==
  \A k \in 2..Len(prices) : prices[k - 1].value <= prices[k].value

\* the locals hold the metrics of the series in stock_prices
Analysed == stock_prices # <<>> /\ Len(drawdown) = Len(stock_prices)
            /\ Dates(drawdown) = Dates(stock_prices)

\* C1: when the request holds a ticker of invalid format or a ticker without
\* data, the run still ends without the top-level error and every valid
\* ticker of the request is fetched and, unless it has no data, reported.
C1_BadTickerNeverFailsBatch ==
  (pc = "done" /\ tickers # <<>>
     /\ Count("warning", "invalid_format") + Count("warning", "no_data") > 0)
  => /\ ~TopLevelError
     /\ Len(fetched) = Len(tickers)
     /\ Count("report", "metrics") + Count("warning", "no_data")
          = Len(tickers)

\* C2: when no price from the max-drawdown date on reaches the running
\* maximum of that date, the recovery period is absent, the metrics of the
\* ticker are still produced and no error is raised.
C2_NoRecoveryStillReported ==
  (pc \in {"loop", "done"} /\ Analysed
     /\ \A k \in 1..Len(stock_prices) :
          stock_prices[k].date >= max_drawdown_start
          => stock_prices[k].value < ValueAt(rolling_max, max_drawdown_start))
  => /\ recovery_period = <<>>
     /\ results # <<>>
     /\ ~TopLevelError

\* C3: after an error raised while computing one ticker's metrics, every
\* ticker after it in the list is still fetched and processed.
C3_ErrorRecoveredLocally ==
  (pc = "done" /\ TopLevelError) => Len(fetched) = Len(tickers)

\* C4: the top-level error and per-ticker results or charts never occur in
\* the same request, and the top-level error is shown at most once.
C4_FatalErrorNoPartialResults ==
  /\ TopLevelError => ~PerTickerOutput
  /\ Count("error", "exception") <= 1

\* C5: for a series of fewer than 2 prices, or a range whose elapsed time is
\* not positive, no CAGR and volatility values are reported, and no report
\* ever carries an undefined (NaN) metric.
C5_InsufficientDataNotReported ==
  /\ (pc \in {"loop", "done"} /\ stock_prices # <<>>
        /\ (Len(stock_prices) < 2 \/ end_date - start_date <= 0))
     => results = <<>>
  /\ \A k \in 1..Len(out) :
       out[k].kind = "report" => ~out[k].body.vol.nan

\* C6: the drawdown is <= 0 at every date, 0 at the first date, and 0
\* exactly at the dates where the price equals the running maximum.
C6_DrawdownNonPositive ==
  pc = "computed"
  => /\ Len(drawdown) = Len(stock_prices)
     /\ drawdown[1].value = Zero
     /\ \A k \in 1..Len(drawdown) :
          /\ drawdown[k].date = stock_prices[k].date
          /\ RatLeq(drawdown[k].value, Zero)
          /\ stock_prices[k].value <= PrefixMax(stock_prices, k)
          /\ (drawdown[k].value = Zero
              <=> stock_prices[k].value = PrefixMax(stock_prices, k))

C6_Witness ==
  /\ pc = "computed"
  /\ \E k \in 1..Len(drawdown) : RatLess(drawdown[k].value, Zero)
  /\ \E k \in 2..Len(drawdown) :
       drawdown[k].value = Zero
       /\ stock_prices[k].value > stock_prices[1].value

\* C7: the max drawdown is the global minimum of the drawdown series, its
\* date is the earliest date of that minimum, and for a price series that
\* never falls the max drawdown is 0 at the first date.
C7_MaxDrawdownIsFirstGlobalMin ==
  pc = "computed"
  => /\ \A k \in 1..Len(drawdown) : RatLeq(max_drawdown, drawdown[k].value)
     /\ \E k \in 1..Len(drawdown) :
          /\ drawdown[k].value = max_drawdown
          /\ drawdown[k].date = max_drawdown_start
     /\ \A k \in 1..Len(drawdown) :
          drawdown[k].value = max_drawdown
          => drawdown[k].date >= max_drawdown_start
     /\ NonDecreasing(stock_prices)
        => /\ max_drawdown = Zero
           /\ max_drawdown_start = stock_prices[1].date

C7_Witness ==
  /\ pc = "computed"
  /\ RatLess(max_drawdown, Zero)
  /\ \E k \in 1..Len(drawdown) :
       /\ drawdown[k].value = max_drawdown
       /\ drawdown[k].date > max_drawdown_start

\* C8: a recovery exists exactly when some price at or after the
\* max-drawdown date is >= the running maximum of that date; the recovery
\* date is the first such date, the recovery period the non-negative number
\* of days from the max-drawdown date to it; for 100, 120, 90, 80, 130 on
\* consecutive days the max drawdown is at day 3 and the recovery at day 4.
C8_RecoveryIsFirstReturnToPeak ==
  pc = "computed"
  => LET peak == ValueAt(rolling_max, max_drawdown_start)
         Reaches(k) == /\ stock_prices[k].date >= max_drawdown_start
                       /\ stock_prices[k].value >= peak
     IN  /\ (recovery_date # <<>>)
              <=> (\E k \in 1..Len(stock_prices) : Reaches(k))
         /\ recovery_date # <<>>
            => /\ \E k \in 1..Len(stock_prices) :
                    /\ Reaches(k)
                    /\ stock_prices[k].date = recovery_date[1]
                    /\ \A j \in 1..(k - 1) : ~Reaches(j)
               /\ recovery_period = <<recovery_date[1] - max_drawdown_start>>
               /\ recovery_period[1] >= 0
         /\ recovery_date = <<>> => recovery_period = <<>>
         /\ stock_prices = ExampleSeries
            => /\ max_drawdown = Rat(-1, 3)
               /\ max_drawdown_start = 3
               /\ peak = 120
               /\ recovery_date = <<4>>
               /\ recovery_period = <<1>>

C8_Witness ==
  /\ pc = "computed"
  /\ recovery_date # <<>>
  /\ recovery_period # <<>>
  /\ recovery_period[1] > 0
  /\ \E k \in 1..Len(stock_prices) :
       /\ stock_prices[k].date > max_drawdown_start
       /\ stock_prices[k].date < recovery_date[1]

\* the keys of a resampled map are the periods holding an observation of the
\* return series, and each value is the sum of the returns of its period
SparseSum(map, freq) ==
  /\ \A k \in 1..Len(map) :
       /\ \E j \in 1..Len(stock_returns) :
            PeriodEnd(freq, stock_returns[j].date) = map[k].date
       /\ map[k].value = SumIn(stock_returns, freq, map[k].date)
  /\ \A j \in 1..Len(stock_returns) :
       \E k \in 1..Len(map) :
         map[k].date = PeriodEnd(freq, stock_returns[j].date)

\* C9: the monthly and annual return maps are sparse: a month or year in
\* which the return series has no observation is not a key, and each value
\* is the sum of the returns observed in its period.
C9_ResampleIsSparse ==
  pc = "computed"
  => /\ SparseSum(monthly_returns, "ME")
     /\ SparseSum(annual_returns, "YE")

\* the characters of an accepted ticker
TickerChars == {"A", "7", "^", "=", ".", "-"}

WellFormed(t) == t # <<>> /\ \A k \in 1..Len(t) : t[k] \in TickerChars

\* C10: the tickers returned are the non-empty, uppercased tokens made only
\* of alphanumerics and ^ = . -, in input order; every other token gets one
\* invalid-format warning; prices are fetched for returned tickers only.
C10_OnlyWellFormedTickersFetched ==
  pc # "idle"
  => LET cands == Candidates(input_text)
         Bad(t) == ~WellFormed(t)
     IN  /\ tickers = SelectSeq(cands, WellFormed)
         /\ Warnings("invalid_format") = SelectSeq(cands, Bad)
         /\ \A k \in 1..Len(fetched) : WellFormed(fetched[k])
         /\ Len(fetched) <= Len(tickers)
         /\ \A k \in 1..Len(fetched) : fetched[k] = tickers[k]

====
